---- MODULE Spec2Model ----
(***************************************************************************)
(* The front end of webml: the alpha-rename pass over the AST              *)
(* (src/ast/rename.rs), the let-flattening pass over the HIR               *)
(* (src/hir/flat_let.rs) and the nom parser (src/parser.rs).               *)
(*                                                                         *)
(* Rename is a state machine: the traverse_* hooks fix the order of the    *)
(* calls to Scope::new, Scope::drop, Scope::new_symbol and Scope::rename,  *)
(* and each of those calls is one action on (tables, pos, id).             *)
(***************************************************************************)
EXTENDS Integers, Sequences, FiniteSets, TLC

VARIABLES
    tables,   \* Rename.tables : Vec<HashMap<Symbol, u64>>, a map is a set of <<key, value>>
    pos,      \* Rename.pos
    id,       \* Rename.id : the last id the allocator handed out
    pc,       \* "new" after Rename::new, "trans" inside Rename::trans, "done" after it
    ast,      \* the AST handed to Rename::trans
    todo,     \* the calls trans has still to make, in order
    out,      \* the ids written into the tree so far: a set of <<place, id>>
    hir,      \* the HIR handed to FlatLet::flat_hir
    flat,     \* the HIR it returned
    fpc,      \* "new" after FlatLet::new, "done" after flat_hir, "idle" when unused
    input,    \* the text handed to parse: a sequence of one-character strings
    parsed,   \* what parse returned
    ppc       \* "new" before parse is called, "done" after, "idle" when unused

vars == <<tables, pos, id, pc, ast, todo, out, hir, flat, fpc, input, parsed, ppc>>

renameVars == <<tables, pos, id, pc, ast, todo, out>>

flatVars == <<hir, flat, fpc>>

parseVars == <<input, parsed, ppc>>

(***************************************************************************)
(* Bounds.                                                                 *)
(***************************************************************************)
\* top-level Vals that may precede the Val under study in an input AST
MaxPre == 1

\* nesting depth of the lets that stand as operands in an input HIR
MaxLetDepth == 2

\* lexemes in the free-form input texts of the parser
MaxLex == 3

\* the most arguments of an application of the input texts
MaxArgs == 2

(***************************************************************************)
(* Sequences.                                                              *)
(***************************************************************************)
RECURSIVE Flatten(_)
Flatten(ss) ==
    IF ss = <<>> THEN <<>> ELSE Head(ss) \o Flatten(Tail(ss))

IsPrefix(p, q) ==
    /\ Len(p) <= Len(q)
    /\ SubSeq(q, 1, Len(p)) = p

Range(s) == {s[i] : i \in DOMAIN s}

RECURSIVE SeqsUpTo(_, _)
SeqsUpTo(S, n) ==
    IF n = 0 THEN {<<>>}
    ELSE LET shorter == SeqsUpTo(S, n - 1)
         IN  shorter \cup {Append(s, x) : s \in shorter, x \in S}

(***************************************************************************)
(* The AST (src/ast/mod.rs).  A Symbol is the pair <<name, id>>; the type  *)
(* slots play no part in renaming and are left out.                        *)
(***************************************************************************)
Symbol(n) == <<n, 0>>

PVar(n) == [pk |-> "Var", names |-> <<Symbol(n)>>]

PTuple(ns) == [pk |-> "Tuple", names |-> [j \in DOMAIN ns |-> Symbol(ns[j])]]

PWildcard == [pk |-> "Wildcard", names |-> <<>>]

PLit == [pk |-> "Lit", names |-> <<>>]

Val(rec, pattern, expr) == [rec |-> rec, pattern |-> pattern, expr |-> expr]

Binds(binds, ret) == [k |-> "Binds", binds |-> binds, ret |-> ret]

BinOp(op, l, r) == [k |-> "BinOp", op |-> Symbol(op), l |-> l, r |-> r]

Fun(param, body) == [k |-> "Fun", param |-> Symbol(param), body |-> body]

App(fun, arg) == [k |-> "App", fun |-> fun, arg |-> arg]

If(cond, then, else_) == [k |-> "If", cond |-> cond, then |-> then, else_ |-> else_]

Case(cond, clauses) == [k |-> "Case", cond |-> cond, clauses |-> clauses]

Tuple(tuple) == [k |-> "Tuple", tuple |-> tuple]

Sym(n) == [k |-> "Sym", name |-> Symbol(n)]

Lit == [k |-> "Lit"]

(***************************************************************************)
(* Places.  A place is the path from the root to a Symbol of the tree:     *)
(*   top-level Val i                     <<i>>                             *)
(*   Val at v: pattern name j, expr      v \o <<1, j>>, v \o <<2>>         *)
(*   Binds at p: binding i, ret          p \o <<i>>, p \o <<0>>            *)
(*   BinOp at p: op, l, r                p \o <<0>>, p \o <<1>>, p \o <<2>>*)
(*   Fun at p: param, body               p \o <<0>>, p \o <<1>>            *)
(*   App at p: fun, arg                  p \o <<1>>, p \o <<2>>            *)
(*   If at p: cond, then, else_          p \o <<1>>, <<2>>, <<3>>          *)
(*   Case at p: cond, clause i           p \o <<0>>, p \o <<i>> (as a Val) *)
(*   Tuple at p: element i               p \o <<i>>                        *)
(*   Sym at p                            p                                 *)
(***************************************************************************)
NoPlace == <<>>

(***************************************************************************)
(* The built-ins registry and the id allocator are external to the pass.   *)
(***************************************************************************)
BuiltinFunctions == <<"print", "+">>

IdNext(i) == i + 1

(***************************************************************************)
(* HashMap<Symbol, u64> as a set of <<key, value>> pairs.                  *)
(***************************************************************************)
MapEmpty == {}

MapHas(m, key) == \E e \in m : e[1] = key

MapGet(m, key) == (CHOOSE e \in m : e[1] = key)[2]

MapInsert(m, key, v) == {e \in m : e[1] # key} \cup {<<key, v>>}

(***************************************************************************)
(* The calls of a traversal.                                               *)
(***************************************************************************)
Call(op, sym, at) == [op |-> op, sym |-> sym, at |-> at]

CallNewScope == Call("new_scope", Symbol(""), NoPlace)

CallDrop == Call("drop", Symbol(""), NoPlace)

\* Scope::new_symbol_pattern: one new_symbol per name of the pattern
NewSymbolPattern(pat, v) ==
    IF pat.pk \in {"Wildcard", "Lit"} THEN <<>>
    ELSE [j \in DOMAIN pat.names |-> Call("new_symbol", pat.names[j], v \o <<1, j>>)]

RECURSIVE TraverseExpr(_, _)
RECURSIVE TraverseBinds(_, _, _)
RECURSIVE TraverseBinop(_, _, _, _)
RECURSIVE TraverseFun(_, _, _)
RECURSIVE TraverseCase(_, _, _)

\* Traverse::traverse_val
TraverseVal(val, v) == TraverseExpr(val.expr, v \o <<2>>)

\* Traverse::traverse_sym
TraverseSym(name, p) == <<Call("rename", name, p)>>

\* Traverse::traverse_binds: rec is not consulted
TraverseBinds(binds, ret, p) ==
    <<CallNewScope>>
    \o Flatten([i \in DOMAIN binds |->
                  TraverseVal(binds[i], p \o <<i>>)
                  \o NewSymbolPattern(binds[i].pattern, p \o <<i>>)])
    \o TraverseExpr(ret, p \o <<0>>)
    \o <<CallDrop>>

\* Traverse::traverse_binop
TraverseBinop(op, l, r, p) ==
    <<Call("rename", op, p \o <<0>>)>>
    \o TraverseExpr(l, p \o <<1>>)
    \o TraverseExpr(r, p \o <<2>>)

\* Traverse::traverse_fun
TraverseFun(param, body, p) ==
    <<CallNewScope, Call("new_symbol", param, p \o <<0>>)>>
    \o TraverseExpr(body, p \o <<1>>)
    \o <<CallDrop>>

\* Traverse::traverse_case
TraverseCase(expr, arms, p) ==
    TraverseExpr(expr, p \o <<0>>)
    \o Flatten([i \in DOMAIN arms |->
                  <<CallNewScope>>
                  \o NewSymbolPattern(arms[i].pattern, p \o <<i>>)
                  \o TraverseExpr(arms[i].expr, p \o <<i, 2>>)
                  \o <<CallDrop>>])

\* Traverse::traverse_expr: dispatch on the variant; App, If, Tuple and Lit
\* keep the default hooks, which recurse into the children in order
TraverseExpr(e, p) ==
    CASE e.k = "Binds" -> TraverseBinds(e.binds, e.ret, p)
      [] e.k = "BinOp" -> TraverseBinop(e.op, e.l, e.r, p)
      [] e.k = "Fun"   -> TraverseFun(e.param, e.body, p)
      [] e.k = "App"   -> TraverseExpr(e.fun, p \o <<1>>) \o TraverseExpr(e.arg, p \o <<2>>)
      [] e.k = "If"    -> TraverseExpr(e.cond, p \o <<1>>)
                          \o TraverseExpr(e.then, p \o <<2>>)
                          \o TraverseExpr(e.else_, p \o <<3>>)
      [] e.k = "Case"  -> TraverseCase(e.cond, e.clauses, p)
      [] e.k = "Tuple" -> Flatten([i \in DOMAIN e.tuple |-> TraverseExpr(e.tuple[i], p \o <<i>>)])
      [] e.k = "Sym"   -> TraverseSym(e.name, p)
      [] e.k = "Lit"   -> <<>>

\* Traverse::traverse_ast as overridden by Scope
TraverseAstNoRec(a) ==
    Flatten([i \in DOMAIN a |->
               TraverseVal(a[i], <<i>>) \o NewSymbolPattern(a[i].pattern, <<i>>)])

TraverseAst(a) ==
    Flatten([i \in DOMAIN a |->
               IF a[i].rec
               THEN NewSymbolPattern(a[i].pattern, <<i>>) \o TraverseVal(a[i], <<i>>)
               ELSE TraverseVal(a[i], <<i>>) \o NewSymbolPattern(a[i].pattern, <<i>>)])

\* Rename::trans: self.scope().traverse_ast(&mut ast), the scope dropped at the end
TransCalls(a) == <<CallNewScope>> \o TraverseAst(a) \o <<CallDrop>>

(***************************************************************************)
(* Scope::rename: the tables below pos, innermost first; a miss leaves the *)
(* symbol as it is.                                                        *)
(***************************************************************************)
RenameLookupStale(tbls, p, symbol) ==
    LET hits == {t \in 1..Len(tbls) : MapHas(tbls[t], symbol)}
    IN  IF hits = {} THEN symbol[2]
        ELSE MapGet(tbls[CHOOSE t \in hits : \A u \in hits : u <= t], symbol)

RenameLookup(tbls, p, symbol) ==
    LET hits == {t \in 1..p : MapHas(tbls[t], symbol)}
    IN  IF hits = {} THEN symbol[2]
        ELSE MapGet(tbls[CHOOSE t \in hits : \A u \in hits : u <= t], symbol)

(***************************************************************************)
(* The input ASTs: up to MaxPre simple Vals that set up the top-level      *)
(* scope, one Val with nested scopes, and an optional closing Val that     *)
(* refers to every name.  Every symbol carries id 0.                       *)
(***************************************************************************)
Names == {"x", "print"}

Refs == {Sym(n) : n \in Names}

SimpleVals == {Val(rec, PVar(n), Sym(n)) : rec \in BOOLEAN, n \in Names}

LetVals ==
    {Val(rec, PVar(n), e) :
        rec \in BOOLEAN, n \in Names,
        e \in Refs \cup {Fun(p, a) : p \in Names, a \in Refs}}

FlatLetVals == {Val(rec, PVar(n), a) : rec \in BOOLEAN, n \in Names, a \in Refs}

CasePatterns == {PVar("x"), PTuple(<<"x", "print">>), PTuple(<<"x", "x">>), PWildcard, PLit}

RichExprs ==
    {Fun(p, App(a, b)) : p \in Names, a \in Refs, b \in Refs}
    \cup {BinOp("+", a, Lit) : a \in Refs}
    \cup {If(a, b, Lit) : a \in Refs, b \in Refs}
    \cup {Case(a, <<Val(FALSE, pat, b)>>) : a \in Refs, pat \in CasePatterns, b \in Refs}
    \cup {Case(Sym("x"), <<Val(FALSE, PVar(n), Sym("x")), Val(FALSE, PWildcard, b)>>) :
            n \in Names, b \in Refs}
    \cup {Tuple(<<Fun(p, Lit), a>>) : p \in Names, a \in Refs}
    \cup {Binds(<<v>>, b) : v \in LetVals, b \in Refs}
    \cup {Binds(<<Val(FALSE, PVar("x"), Lit)>>, Binds(<<v>>, b)) : v \in FlatLetVals, b \in Refs}
    \cup {Binds(<<Val(FALSE, PVar(n), Lit), v>>, b) : n \in Names, v \in FlatLetVals, b \in Refs}

RichVals ==
    {Val(rec, pat, e) :
        rec \in BOOLEAN, pat \in {PVar("x"), PTuple(<<"x", "print">>)}, e \in RichExprs}

ClosingVal == Val(FALSE, PWildcard, Tuple(<<Sym("x"), Sym("print")>>))

InputASTs ==
    {pre \o mid \o post :
        pre \in SeqsUpTo(SimpleVals, MaxPre),
        mid \in {<<>>} \cup {<<v>> : v \in RichVals},
        post \in {<<>>, <<ClosingVal>>}}

(***************************************************************************)
(* Rename::new                                                             *)
(***************************************************************************)
RenameNew ==
    /\ tables = <<{<<Symbol(BuiltinFunctions[i]), 0>> : i \in DOMAIN BuiltinFunctions}>>
    /\ pos = 0
    /\ id = 0
    /\ pc = "new"
    /\ ast = <<>>
    /\ todo = <<>>
    /\ out = {}

FlatIdle ==
    /\ hir = <<>>
    /\ flat = <<>>
    /\ fpc = "idle"

ParseIdle ==
    /\ input = <<>>
    /\ parsed = [ok |-> FALSE, ast |-> <<>>]
    /\ ppc = "idle"

(***************************************************************************)
(* Rename::trans is entered with an AST.                                   *)
(***************************************************************************)
Trans ==
    /\ pc = "new"
    /\ \E a \in InputASTs :
         /\ ast' = a
         /\ todo' = TransCalls(a)
    /\ pc' = "trans"
    /\ UNCHANGED <<tables, pos, id, out>>

Step(op) ==
    /\ pc = "trans"
    /\ todo # <<>>
    /\ Head(todo).op = op
    /\ todo' = Tail(todo)
    /\ pc' = IF Tail(todo) = <<>> THEN "done" ELSE "trans"
    /\ UNCHANGED ast

\* Scope::new
ScopeNew ==
    /\ Step("new_scope")
    /\ tables' = IF Len(tables) <= pos
                 THEN Append(tables, MapEmpty)
                 ELSE [tables EXCEPT ![pos + 1] = MapEmpty]
    /\ pos' = pos + 1
    /\ UNCHANGED <<id, out>>

\* Drop for Scope
ScopeDrop ==
    /\ Step("drop")
    /\ pos' = pos - 1
    /\ UNCHANGED <<tables, id, out>>

\* Scope::new_symbol
NewSymbolNoFresh ==
    /\ Step("new_symbol")
    /\ LET symbol == Head(todo).sym
           new_id == IF id = 0 THEN IdNext(id) ELSE id
       IN  /\ id' = new_id
           /\ tables' = [tables EXCEPT ![pos] = MapInsert(@, symbol, new_id)]
           /\ out' = out \cup {<<Head(todo).at, new_id>>}
    /\ UNCHANGED pos

NewSymbol ==
    /\ Step("new_symbol")
    /\ LET symbol == Head(todo).sym
           new_id == IdNext(id)
       IN  /\ id' = new_id
           /\ tables' = [tables EXCEPT ![pos] = MapInsert(@, symbol, new_id)]
           /\ out' = out \cup {<<Head(todo).at, new_id>>}
    /\ UNCHANGED pos

\* Scope::rename
ScopeRename ==
    /\ Step("rename")
    /\ out' = out \cup {<<Head(todo).at, RenameLookup(tables, pos, Head(todo).sym)>>}
    /\ UNCHANGED <<tables, pos, id>>

NextRename ==
    \/ Trans /\ UNCHANGED <<flatVars, parseVars>>
    \/ ScopeNew /\ UNCHANGED <<flatVars, parseVars>>
    \/ ScopeDrop /\ UNCHANGED <<flatVars, parseVars>>
    \/ NewSymbol /\ UNCHANGED <<flatVars, parseVars>>
    \/ ScopeRename /\ UNCHANGED <<flatVars, parseVars>>

InitRename == RenameNew /\ FlatIdle /\ ParseIdle

SpecRename == InitRename /\ [][NextRename]_vars

(***************************************************************************)
(* What the tree looks like after the pass.                                *)
(***************************************************************************)
RenameDone == pc = "done"

HasId(place) == \E e \in out : e[1] = place

IdAt(place) == (CHOOSE e \in out : e[1] = place)[2]

(***************************************************************************)
(* The scoping rules of the language, read off the tree alone: Lex(a) has  *)
(* one entry per reference (Sym or BinOp operator) of a, with the binder   *)
(* the rules give it.  A binder is (place, kind, rec, val): kind is "top", *)
(* "let", "fn" or "case", val the place of the Val (or clause) it belongs  *)
(* to; kind "none" stands for no binder in scope.  A let binding with      *)
(* rec = TRUE is in scope in its own expression, as at top level.          *)
(***************************************************************************)
Binder(at, kind, rec, val) == [at |-> at, kind |-> kind, rec |-> rec, val |-> val]

NoBinder == Binder(NoPlace, "none", FALSE, NoPlace)

AllNames == Names \cup Range(BuiltinFunctions)

EmptyEnv == [n \in AllNames |-> NoBinder]

RECURSIVE BindNames(_, _, _, _, _, _)
BindNames(env, names, j, kind, rec, v) ==
    IF j > Len(names) THEN env
    ELSE BindNames([env EXCEPT ![names[j][1]] = Binder(v \o <<1, j>>, kind, rec, v)],
                   names, j + 1, kind, rec, v)

BindPattern(env, pat, kind, rec, v) == BindNames(env, pat.names, 1, kind, rec, v)

LexRef(symbol, p, env) == [ref |-> p, name |-> symbol[1], binder |-> env[symbol[1]]]

RECURSIVE LexExpr(_, _, _)
RECURSIVE LexVals(_, _, _, _, _)

\* the references of vals[i..] at places p \o <<i>>.., then those of the let body
\* (withRet) under the environment the bindings leave
LexVals(vals, i, p, env, body) ==
    IF i > Len(vals)
    THEN IF body.k = "None" THEN {} ELSE LexExpr(body, p \o <<0>>, env)
    ELSE LET v == p \o <<i>>
             kind == IF p = NoPlace THEN "top" ELSE "let"
             inner == BindPattern(env, vals[i].pattern, kind, vals[i].rec, v)
         IN  LexExpr(vals[i].expr, v \o <<2>>, IF vals[i].rec THEN inner ELSE env)
             \cup LexVals(vals, i + 1, p, inner, body)

LexExpr(e, p, env) ==
    CASE e.k = "Binds" -> LexVals(e.binds, 1, p, env, e.ret)
      [] e.k = "BinOp" -> {LexRef(e.op, p \o <<0>>, env)}
                          \cup LexExpr(e.l, p \o <<1>>, env)
                          \cup LexExpr(e.r, p \o <<2>>, env)
      [] e.k = "Fun"   -> LexExpr(e.body, p \o <<1>>,
                                  [env EXCEPT ![e.param[1]] = Binder(p \o <<0>>, "fn", FALSE, p)])
      [] e.k = "App"   -> LexExpr(e.fun, p \o <<1>>, env) \cup LexExpr(e.arg, p \o <<2>>, env)
      [] e.k = "If"    -> LexExpr(e.cond, p \o <<1>>, env)
                          \cup LexExpr(e.then, p \o <<2>>, env)
                          \cup LexExpr(e.else_, p \o <<3>>, env)
      [] e.k = "Case"  -> LexExpr(e.cond, p \o <<0>>, env)
                          \cup UNION {LexExpr(e.clauses[i].expr, p \o <<i, 2>>,
                                              BindPattern(env, e.clauses[i].pattern,
                                                          "case", FALSE, p \o <<i>>)) :
                                        i \in DOMAIN e.clauses}
      [] e.k = "Tuple" -> UNION {LexExpr(e.tuple[i], p \o <<i>>, env) : i \in DOMAIN e.tuple}
      [] e.k = "Sym"   -> {LexRef(e.name, p, env)}
      [] e.k = "Lit"   -> {}

Lex(a) == LexVals(a, 1, NoPlace, EmptyEnv, [k |-> "None"])

\* the binding occurrences of a tree: the places of the names of every Val
\* pattern, fn parameter and case-clause pattern
RECURSIVE BindersOfExpr(_, _)
BindersOfVals(vals, p) ==
    UNION {{p \o <<i, 1, j>> : j \in DOMAIN vals[i].pattern.names}
           \cup BindersOfExpr(vals[i].expr, p \o <<i, 2>>) : i \in DOMAIN vals}

BindersOfExpr(e, p) ==
    CASE e.k = "Binds" -> BindersOfVals(e.binds, p) \cup BindersOfExpr(e.ret, p \o <<0>>)
      [] e.k = "BinOp" -> BindersOfExpr(e.l, p \o <<1>>) \cup BindersOfExpr(e.r, p \o <<2>>)
      [] e.k = "Fun"   -> {p \o <<0>>} \cup BindersOfExpr(e.body, p \o <<1>>)
      [] e.k = "App"   -> BindersOfExpr(e.fun, p \o <<1>>) \cup BindersOfExpr(e.arg, p \o <<2>>)
      [] e.k = "If"    -> BindersOfExpr(e.cond, p \o <<1>>)
                          \cup BindersOfExpr(e.then, p \o <<2>>)
                          \cup BindersOfExpr(e.else_, p \o <<3>>)
      [] e.k = "Case"  -> BindersOfExpr(e.cond, p \o <<0>>) \cup BindersOfVals(e.clauses, p)
      [] e.k = "Tuple" -> UNION {BindersOfExpr(e.tuple[i], p \o <<i>>) : i \in DOMAIN e.tuple}
      [] OTHER         -> {}

BindersOf(a) == BindersOfVals(a, NoPlace)

\* a reference lies in the expression of the Val its binder belongs to
InOwnExpr(l) == IsPrefix(l.binder.val \o <<2>>, l.ref)

(***************************************************************************)
(* C1.  Rename uniqueness: after Rename::trans on a tree whose symbols all *)
(* carry id 0, every binding occurrence (each name of a Val pattern, of a  *)
(* tuple pattern, each fn parameter, each name of a case-clause pattern)   *)
(* carries an id other than 0 and other than the id of every other binding *)
(* occurrence of the tree.                                                 *)
(***************************************************************************)
RenameUniqueness ==
    RenameDone =>
        \A b \in BindersOf(ast) :
            /\ HasId(b)
            /\ IdAt(b) # 0
            /\ \A c \in BindersOf(ast) : c # b => IdAt(c) # IdAt(b)

\* a renamed tree with a tuple pattern, a fn parameter and a let or case binder
RenameUniquenessWitness ==
    /\ RenameDone
    /\ \E b \in BindersOf(ast) : Len(b) = 3 /\ b[2] = 1 /\ b[3] = 2
    /\ Cardinality(BindersOf(ast)) >= 4

(***************************************************************************)
(* C2.  Rename honors rec inside let: every reference to a name bound by a *)
(* let-local Val with rec = TRUE, made inside that Val's own expression,   *)
(* carries after rename the id assigned to that Val's binder.              *)
(***************************************************************************)
RenameHonorsRecInLet ==
    RenameDone =>
        \A l \in Lex(ast) :
            (l.binder.kind = "let" /\ l.binder.rec /\ InOwnExpr(l))
                => IdAt(l.ref) = IdAt(l.binder.at)

(***************************************************************************)
(* C5.  Rename resolution: every reference that carries an id other than 0 *)
(* after rename carries the id of the innermost binder of its name on its  *)
(* lexical path (fn parameter, case-clause pattern, earlier or             *)
(* own-recursive binding of an enclosing let or of the top level), and of  *)
(* no other binder.                                                        *)
(***************************************************************************)
RenameResolution ==
    RenameDone =>
        \A l \in Lex(ast) :
            IdAt(l.ref) # 0 =>
                /\ l.binder.kind # "none"
                /\ IdAt(l.ref) = IdAt(l.binder.at)
                /\ \A b \in BindersOf(ast) : IdAt(b) = IdAt(l.ref) => b = l.binder.at

(***************************************************************************)
(* C6.  Top-level scoping: a reference that the rules resolve to a         *)
(* top-level binder (from its own expression when rec = TRUE, from a later *)
(* Val in either case) carries that binder's id; a reference inside the    *)
(* expression of a top-level Val with rec = FALSE never carries the id of  *)
(* that Val's own binders; top-level binders receive their ids in document *)
(* order.                                                                  *)
(***************************************************************************)
RenameTopLevelScoping ==
    RenameDone =>
        /\ \A l \in Lex(ast) :
               l.binder.kind = "top" => IdAt(l.ref) = IdAt(l.binder.at)
        /\ \A i \in DOMAIN ast : \A l \in Lex(ast) :
               (~ast[i].rec /\ IsPrefix(<<i, 2>>, l.ref)) =>
                   \A j \in DOMAIN ast[i].pattern.names : IdAt(l.ref) # IdAt(<<i, 1, j>>)
        /\ \A i, k \in DOMAIN ast :
               \A j \in DOMAIN ast[i].pattern.names, m \in DOMAIN ast[k].pattern.names :
                   i < k => IdAt(<<i, 1, j>>) < IdAt(<<k, 1, m>>)

\* a renamed tree in which a rec Val refers to itself, a non-rec Val refers to
\* its own name, and a later Val refers to a top-level binder
RenameTopLevelScopingWitness ==
    /\ RenameDone
    /\ \E l \in Lex(ast) :
           l.binder.kind = "top" /\ l.binder.rec /\ InOwnExpr(l) /\ IdAt(l.ref) # 0
    /\ \E i \in DOMAIN ast : \E l \in Lex(ast) :
           /\ ~ast[i].rec
           /\ IsPrefix(<<i, 2>>, l.ref)
           /\ \E j \in DOMAIN ast[i].pattern.names : ast[i].pattern.names[j][1] = l.name
    /\ \E l \in Lex(ast) :
           l.binder.kind = "top" /\ ~InOwnExpr(l) /\ IdAt(l.ref) # 0

(***************************************************************************)
(* C7.  Built-in preservation: every reference whose name is in the        *)
(* built-ins registry and has no user binder on its lexical path still     *)
(* carries id 0 after rename.                                              *)
(***************************************************************************)
BuiltinPreservation ==
    RenameDone =>
        \A l \in Lex(ast) :
            (l.name \in Range(BuiltinFunctions) /\ l.binder.kind = "none")
                => IdAt(l.ref) = 0

\* a renamed tree with an unshadowed built-in operator and an unshadowed
\* built-in Sym that follows a closed scope which bound the same name
BuiltinPreservationWitness ==
    /\ RenameDone
    /\ \E l \in Lex(ast) : l.name = "+" /\ l.binder.kind = "none" /\ IdAt(l.ref) = 0
    /\ \E l \in Lex(ast) :
           /\ l.name = "print" /\ l.binder.kind = "none"
           /\ \E b \in BindersOf(ast) : IdAt(b) # 0
    /\ out # {}

(***************************************************************************)
(* C10.  Built-ins stay in the outermost scope mapping: from construction  *)
(* on, the mapping at index 0 of the scope stack holds every built-in      *)
(* function name bound to id 0.                                            *)
(***************************************************************************)
BuiltinsStayInOutermostScope ==
    /\ Len(tables) >= 1
    /\ \A i \in DOMAIN BuiltinFunctions :
           /\ MapHas(tables[1], Symbol(BuiltinFunctions[i]))
           /\ MapGet(tables[1], Symbol(BuiltinFunctions[i])) = 0

(***************************************************************************)
(* The HIR (as flat_let.rs matches on it): Binds, Fun, App, If, PrimFun,   *)
(* Sym, Lit.  Binds, App, If and Lit have the shape of the AST nodes.  A   *)
(* Val of the HIR is named by the place it has in the input, so that every *)
(* Val of an input has a name of its own.                                  *)
(***************************************************************************)
HVal(name, expr) == [name |-> name, expr |-> expr]

HFun(param, body) == [k |-> "Fun", param |-> param, body |-> body]

HSym(n) == [k |-> "Sym", name |-> n]

PrimFun == [k |-> "PrimFun"]

(***************************************************************************)
(* take_binds                                                              *)
(***************************************************************************)
RECURSIVE take_binds(_)
take_binds(expr) ==
    CASE expr.k = "Binds" -> <<expr.ret, expr.binds>>
      [] expr.k = "App"   -> LET f == take_binds(expr.fun)
                                 a == take_binds(expr.arg)
                             IN  <<App(f[1], a[1]), f[2] \o a[2]>>
      [] expr.k = "If"    -> LET c == take_binds(expr.cond)
                             IN  <<If(c[1], expr.then, expr.else_), c[2]>>
      [] OTHER            -> <<expr, <<>>>>

(***************************************************************************)
(* FlatLet::flat_expr, flat_val, flat_hir                                  *)
(***************************************************************************)
RECURSIVE flat_expr(_)
RECURSIVE flat_binds(_, _, _)

\* the loop of the Binds arm: vec after the bindings i.. have been pushed
flat_binds(binds, i, vec) ==
    IF i > Len(binds) THEN vec
    ELSE LET taken == take_binds(flat_expr(binds[i].expr))
         IN  flat_binds(binds, i + 1,
                        Append(vec \o taken[2], [binds[i] EXCEPT !.expr = taken[1]]))

flat_expr(expr) ==
    CASE expr.k = "Binds" -> LET vec == flat_binds(expr.binds, 1, <<>>)
                                 taken == take_binds(expr.ret)
                             IN  Binds(vec \o taken[2], taken[1])
      [] expr.k = "Fun"   -> HFun(expr.param, flat_expr(expr.body))
      [] expr.k = "App"   -> App(flat_expr(expr.fun), flat_expr(expr.arg))
      [] expr.k = "If"    -> If(flat_expr(expr.cond), flat_expr(expr.then), flat_expr(expr.else_))
      [] OTHER            -> expr

flat_val(val) == [val EXCEPT !.expr = flat_expr(val.expr)]

flat_hir(h) == [i \in DOMAIN h |-> flat_val(h[i])]

(***************************************************************************)
(* The input HIRs: an optional plain Val, then one Val whose right-hand    *)
(* side is a let nest, an application or an if over let nests, a fn over   *)
(* such, or a let whose binding and body are such.                         *)
(***************************************************************************)
HAtoms == {Lit, HSym("s")}

RECURSIVE LetNest(_, _)
LetNest(d, p) ==
    IF d = 0 THEN {Lit}
    ELSE {Lit} \cup {Binds(<<HVal(p, e1)>>, e2) :
                        e1 \in LetNest(d - 1, p \o <<1>>), e2 \in LetNest(d - 1, p \o <<2>>)}

Operands(p) == {HSym("s")} \cup LetNest(MaxLetDepth, p)

HApps(p) ==
    {App(f, a) : f \in {HSym("f"), PrimFun} \cup LetNest(MaxLetDepth, p \o <<1>>),
                 a \in Operands(p \o <<2>>)}
    \cup {App(App(HSym("f"), a), b) :
            a \in LetNest(1, p \o <<1, 2>>), b \in LetNest(1, p \o <<2>>)}

HIfs(p) ==
    {If(c, t, e) : c \in Operands(p \o <<1>>),
                   t \in LetNest(1, p \o <<2>>), e \in LetNest(1, p \o <<3>>)}

HInner(p) == HAtoms \cup HApps(p) \cup HIfs(p)

HRichExprs(p) ==
    LetNest(MaxLetDepth + 1, p)
    \cup HInner(p)
    \cup {HFun("x", b) : b \in HApps(p \o <<1>>)}
    \cup {Binds(<<HVal(p, e1)>>, e2) : e1 \in HInner(p \o <<1>>), e2 \in HInner(p \o <<2>>)}

InputHIRs ==
    {pre \o <<HVal(<<Len(pre) + 1>>, e)>> :
        pre \in {<<>>, <<HVal(<<1>>, Lit)>>},
        e \in HRichExprs(<<2, 1>>)}

(***************************************************************************)
(* FlatLet::new, and the pass run on an input.                             *)
(***************************************************************************)
FlatLetNew ==
    /\ hir \in InputHIRs
    /\ flat = <<>>
    /\ fpc = "new"

\* Pass::trans for FlatLet: Ok(self.flat_hir(hir))
FlatTrans ==
    /\ fpc = "new"
    /\ flat' = flat_hir(hir)
    /\ fpc' = "done"
    /\ UNCHANGED hir

NextFlat == FlatTrans /\ UNCHANGED <<renameVars, parseVars>>

InitFlat == RenameNew /\ FlatLetNew /\ ParseIdle

SpecFlat == InitFlat /\ [][NextFlat]_vars

FlatDone == fpc = "done"

(***************************************************************************)
(* Reading a HIR tree.                                                     *)
(***************************************************************************)
RECURSIVE ContainsBinds(_)
ContainsBinds(e) ==
    CASE e.k = "Binds" -> TRUE
      [] e.k = "Fun"   -> ContainsBinds(e.body)
      [] e.k = "App"   -> ContainsBinds(e.fun) \/ ContainsBinds(e.arg)
      [] e.k = "If"    -> ContainsBinds(e.cond) \/ ContainsBinds(e.then) \/ ContainsBinds(e.else_)
      [] OTHER         -> FALSE

\* the names of the Vals of an expression in evaluation order: the bindings
\* inside a right-hand side before the binding, function before argument,
\* condition before branches, a let's bindings before those of its body
RECURSIVE EvalOrder(_)
EvalOrderVals(vals) ==
    Flatten([i \in DOMAIN vals |-> Append(EvalOrder(vals[i].expr), vals[i].name)])

EvalOrder(e) ==
    CASE e.k = "Binds" -> EvalOrderVals(e.binds) \o EvalOrder(e.ret)
      [] e.k = "Fun"   -> EvalOrder(e.body)
      [] e.k = "App"   -> EvalOrder(e.fun) \o EvalOrder(e.arg)
      [] e.k = "If"    -> EvalOrder(e.cond) \o EvalOrder(e.then) \o EvalOrder(e.else_)
      [] OTHER         -> <<>>

\* the names of the Vals that lie inside a then or else branch
RECURSIVE BranchVals(_)
BranchVals(e) ==
    CASE e.k = "Binds" -> UNION {BranchVals(e.binds[i].expr) : i \in DOMAIN e.binds}
                          \cup BranchVals(e.ret)
      [] e.k = "Fun"   -> BranchVals(e.body)
      [] e.k = "App"   -> BranchVals(e.fun) \cup BranchVals(e.arg)
      [] e.k = "If"    -> BranchVals(e.cond)
                          \cup Range(EvalOrder(e.then)) \cup Range(EvalOrder(e.else_))
      [] OTHER         -> {}

\* an application (possibly curried) whose operands are atoms or lets over
\* atoms, at least one of them a let
IsPlainLet(e) ==
    /\ e.k = "Binds"
    /\ e.ret.k \notin {"Binds", "App", "If", "Fun"}
    /\ \A i \in DOMAIN e.binds : e.binds[i].expr.k \notin {"Binds", "App", "If", "Fun"}

RECURSIVE IsLetApp(_)
IsLetApp(e) ==
    /\ e.k = "App"
    /\ \/ e.fun.k \in {"Sym", "PrimFun", "Lit"}
       \/ IsPlainLet(e.fun)
       \/ IsLetApp(e.fun)
    /\ e.arg.k \in {"Sym", "Lit"} \/ IsPlainLet(e.arg)
    /\ ContainsBinds(e)

NamesOf(vals) == [i \in DOMAIN vals |-> vals[i].name]

\* no App with a Binds as fun or arg, no If with a Binds as cond, no binding
\* with a Binds as right-hand side, anywhere in e
RECURSIVE FlatShape(_)
FlatShape(e) ==
    CASE e.k = "Binds" -> /\ \A i \in DOMAIN e.binds :
                                 /\ e.binds[i].expr.k # "Binds"
                                 /\ FlatShape(e.binds[i].expr)
                          /\ FlatShape(e.ret)
      [] e.k = "Fun"   -> FlatShape(e.body)
      [] e.k = "App"   -> /\ e.fun.k # "Binds" /\ e.arg.k # "Binds"
                          /\ FlatShape(e.fun) /\ FlatShape(e.arg)
      [] e.k = "If"    -> /\ e.cond.k # "Binds"
                          /\ FlatShape(e.cond) /\ FlatShape(e.then) /\ FlatShape(e.else_)
      [] OTHER         -> TRUE

(***************************************************************************)
(* C3.  FlatLet hoists through application at top level: for a top-level   *)
(* Val whose right-hand side is an application with lets among its         *)
(* operands, flat_hir returns a top-level list in which the hoisted        *)
(* bindings stand immediately before that Val, those of the function       *)
(* position before those of the argument position, and the Val's           *)
(* right-hand side holds no Binds.                                         *)
(***************************************************************************)
FlatHoistsThroughAppAtTopLevel ==
    FlatDone =>
        \A i \in DOMAIN hir :
            IsLetApp(hir[i].expr) =>
                \E j \in DOMAIN flat :
                    LET hoisted == EvalOrder(hir[i].expr)
                    IN  /\ flat[j].name = hir[i].name
                        /\ ~ContainsBinds(flat[j].expr)
                        /\ j > Len(hoisted)
                        /\ SubSeq(NamesOf(flat), j - Len(hoisted), j - 1) = hoisted

(***************************************************************************)
(* C4.  FlatLet shape: in the result of flat_hir no App has a Binds as fun *)
(* or arg, no If has a Binds as cond, and no binding of a Binds list, nor  *)
(* a top-level Val, has a Binds as right-hand side.                        *)
(***************************************************************************)
FlatLetShape ==
    FlatDone =>
        \A j \in DOMAIN flat :
            /\ flat[j].expr.k # "Binds"
            /\ FlatShape(flat[j].expr)

(***************************************************************************)
(* C8.  FlatLet preserves the evaluation order of bindings: the Vals of    *)
(* the tree, listed in evaluation order, are the same sequence before and  *)
(* after flat_hir, and the Vals inside then/else branches are the same.    *)
(***************************************************************************)
FlatPreservesEvalOrder ==
    FlatDone =>
        /\ EvalOrderVals(flat) = EvalOrderVals(hir)
        /\ UNION {BranchVals(flat[j].expr) : j \in DOMAIN flat}
             = UNION {BranchVals(hir[i].expr) : i \in DOMAIN hir}

(***************************************************************************)
(* The parser (src/parser.rs), on nom 2.x.  A text is a sequence of        *)
(* one-character strings.  A nom parser returns Done(rest, output), Error  *)
(* or Incomplete:                                                          *)
(*   tag!        Error on a mismatch within the common prefix, Incomplete  *)
(*               when the input ends inside the tag;                       *)
(*   alphanumeric, digit, multispace   one or more characters of the       *)
(*               class, Error when there is none;                          *)
(*   opt!        Error becomes Done with no output; complete! turns        *)
(*               Incomplete into Error; alt! takes the first alternative   *)
(*               that is not Error; do_parse! stops at the first step that *)
(*               is not Done;                                              *)
(*   separated_list!  ends, without consuming the separator, at the first  *)
(*               separator or element that is not Done.                    *)
(***************************************************************************)
Letters ==
    {"a", "b", "c", "d", "e", "f", "g", "h", "i", "j", "k", "l", "m",
     "n", "o", "p", "q", "r", "s", "t", "u", "v", "w", "x", "y", "z"}

Digits == {"0", "1", "2", "3", "4", "5", "6", "7", "8", "9"}

Alphanumerics == Letters \cup Digits

Spaces == {" ", "\t", "\r", "\n"}

Done(rest, o) == [st |-> "Done", rest |-> rest, o |-> o]

Error == [st |-> "Error"]

Incomplete == [st |-> "Incomplete"]

Fail(r) == [st |-> r.st]

Drop(i, n) == SubSeq(i, n + 1, Len(i))

\* the length of the longest prefix of i made of characters of class
RECURSIVE Span(_, _)
Span(i, class) ==
    IF i = <<>> \/ Head(i) \notin class THEN 0 ELSE 1 + Span(Tail(i), class)

tag(i, t) ==
    LET m == IF Len(i) < Len(t) THEN Len(i) ELSE Len(t)
    IN  IF SubSeq(i, 1, m) # SubSeq(t, 1, m) THEN Error
        ELSE IF m < Len(t) THEN Incomplete
        ELSE Done(Drop(i, Len(t)), t)

TakeClass(i, class) ==
    LET n == Span(i, class)
    IN  IF n = 0 THEN Error ELSE Done(Drop(i, n), SubSeq(i, 1, n))

alphanumeric(i) == TakeClass(i, Alphanumerics)

digit(i) == TakeClass(i, Digits)

multispace(i) == TakeClass(i, Spaces)

opt(r, i) ==
    CASE r.st = "Done"  -> r
      [] r.st = "Error" -> Done(i, "None")
      [] OTHER          -> r

complete(r) == IF r.st = "Incomplete" THEN Error ELSE r

eof(i) == IF i = <<>> THEN Done(i, i) ELSE Error

RECURSIVE DecValue(_)
DecValue(ds) ==
    IF ds = <<>> THEN 0
    ELSE 10 * DecValue(SubSeq(ds, 1, Len(ds) - 1))
         + (CHOOSE d \in 0..9 : ToString(d) = ds[Len(ds)])

(***************************************************************************)
(* The AST the parser builds: Val{rec, name, expr}; Binds, Fun, If, App as *)
(* above, Add and Mul for the operators, Sym and Lit.  A Symbol is its     *)
(* name.                                                                   *)
(***************************************************************************)
PVal(rec, name, expr) == [rec |-> rec, name |-> name, expr |-> expr]

Add(l, r) == [k |-> "Add", l |-> l, r |-> r]

Mul(l, r) == [k |-> "Mul", l |-> l, r |-> r]

LitInt(n) == [k |-> "Lit", value |-> [t |-> "Int", n |-> n]]

LitFloat(text) == [k |-> "Lit", value |-> [t |-> "Float", text |-> text]]

LitBool(b) == [k |-> "Lit", value |-> [t |-> "Bool", b |-> b]]

ReservedWords ==
    {<<"v", "a", "l">>, <<"f", "u", "n">>, <<"f", "n">>, <<"l", "e", "t">>, <<"i", "n">>, <<"e", "n", "d">>, <<"i", "f">>, <<"t", "h", "e", "n">>, <<"e", "l", "s", "e">>}

\* symbol: an alphanumeric run that is not a reserved word
symbolValNotReserved(i) ==
    LET r == alphanumeric(i)
    IN  IF r.st # "Done" THEN Fail(r)
        ELSE IF r.o \in ReservedWords \ {<<"v", "a", "l">>} THEN Error
        ELSE Done(r.rest, r.o)

symbol(i) ==
    LET r == alphanumeric(i)
    IN  IF r.st # "Done" THEN Fail(r)
        ELSE IF r.o \in ReservedWords THEN Error
        ELSE Done(r.rest, r.o)

RECURSIVE Rule(_, _)
RECURSIVE separated_loop(_, _, _)

\* the loop of separated_list! and separated_nonempty_list! over multispace
separated_loop(what, i, res) ==
    LET s == multispace(i)
    IN  IF s.st # "Done" \/ Len(s.rest) = Len(i) THEN Done(i, res)
        ELSE LET e == Rule(what, s.rest)
             IN  IF e.st # "Done" \/ Len(e.rest) = Len(s.rest) THEN Done(i, res)
                 ELSE separated_loop(what, e.rest, Append(res, e.o))

separated_list(what, i) ==
    LET e == Rule(what, i)
    IN  CASE e.st = "Error"      -> Done(i, <<>>)
          [] e.st = "Incomplete" -> Incomplete
          [] OTHER -> IF Len(e.rest) = Len(i) THEN Error
                      ELSE separated_loop(what, e.rest, <<e.o>>)

separated_nonempty_list(what, i) ==
    LET e == Rule(what, i)
    IN  IF e.st # "Done" THEN Fail(e)
        ELSE IF Len(e.rest) = Len(i) THEN Error
        ELSE separated_loop(what, e.rest, <<e.o>>)

bind(i) ==
    LET a == Rule("bind_val", i)
    IN  IF a.st # "Error" THEN a ELSE Rule("bind_fun", i)

bind_val(i) ==
    LET r1 == tag(i, <<"v", "a", "l">>) IN IF r1.st # "Done" THEN Fail(r1) ELSE
    LET r2 == multispace(r1.rest) IN IF r2.st # "Done" THEN Fail(r2) ELSE
    LET name == symbol(r2.rest) IN IF name.st # "Done" THEN Fail(name) ELSE
    LET r4 == opt(multispace(name.rest), name.rest) IN IF r4.st # "Done" THEN Fail(r4) ELSE
    LET r5 == tag(r4.rest, <<"=">>) IN IF r5.st # "Done" THEN Fail(r5) ELSE
    LET r6 == opt(multispace(r5.rest), r5.rest) IN IF r6.st # "Done" THEN Fail(r6) ELSE
    LET e == Rule("expr", r6.rest) IN IF e.st # "Done" THEN Fail(e) ELSE
    Done(e.rest, PVal(FALSE, name.o, e.o))

\* params.into_iter().rev().fold(e, |acc, param| Fun{param, body: acc})
RECURSIVE FoldParams(_, _)
FoldParams(params, e) ==
    IF params = <<>> THEN e
    ELSE HFun(Head(params), FoldParams(Tail(params), e))

bind_fun(i) ==
    LET r1 == tag(i, <<"f", "u", "n">>) IN IF r1.st # "Done" THEN Fail(r1) ELSE
    LET r2 == multispace(r1.rest) IN IF r2.st # "Done" THEN Fail(r2) ELSE
    LET name == symbol(r2.rest) IN IF name.st # "Done" THEN Fail(name) ELSE
    LET r4 == multispace(name.rest) IN IF r4.st # "Done" THEN Fail(r4) ELSE
    LET params == separated_nonempty_list("symbol", r4.rest)
    IN IF params.st # "Done" THEN Fail(params) ELSE
    LET r6 == opt(multispace(params.rest), params.rest) IN IF r6.st # "Done" THEN Fail(r6) ELSE
    LET r7 == tag(r6.rest, <<"=">>) IN IF r7.st # "Done" THEN Fail(r7) ELSE
    LET r8 == opt(multispace(r7.rest), r7.rest) IN IF r8.st # "Done" THEN Fail(r8) ELSE
    LET e == Rule("expr", r8.rest) IN IF e.st # "Done" THEN Fail(e) ELSE
    Done(e.rest, PVal(TRUE, name.o, FoldParams(params.o, e.o)))

expr(i) ==
    LET a == Rule("expr_bind", i) IN IF a.st # "Error" THEN a ELSE
    LET b == Rule("expr_fun", i) IN IF b.st # "Error" THEN b ELSE
    LET c == Rule("expr_if", i) IN IF c.st # "Error" THEN c ELSE
    LET d == Rule("expr_add", i) IN IF d.st # "Error" THEN d ELSE
    Rule("expr1", i)

expr1(i) ==
    LET a == Rule("expr1_app", i) IN IF a.st # "Error" THEN a ELSE
    LET b == Rule("expr1_mul", i) IN IF b.st # "Error" THEN b ELSE
    Rule("expr0", i)

expr_bind(i) ==
    LET r1 == tag(i, <<"l", "e", "t">>) IN IF r1.st # "Done" THEN Fail(r1) ELSE
    LET r2 == multispace(r1.rest) IN IF r2.st # "Done" THEN Fail(r2) ELSE
    LET binds == separated_list("bind", r2.rest) IN IF binds.st # "Done" THEN Fail(binds) ELSE
    LET r4 == multispace(binds.rest) IN IF r4.st # "Done" THEN Fail(r4) ELSE
    LET r5 == tag(r4.rest, <<"i", "n">>) IN IF r5.st # "Done" THEN Fail(r5) ELSE
    LET r6 == multispace(r5.rest) IN IF r6.st # "Done" THEN Fail(r6) ELSE
    LET ret == Rule("expr", r6.rest) IN IF ret.st # "Done" THEN Fail(ret) ELSE
    LET r8 == multispace(ret.rest) IN IF r8.st # "Done" THEN Fail(r8) ELSE
    LET r9 == tag(r8.rest, <<"e", "n", "d">>) IN IF r9.st # "Done" THEN Fail(r9) ELSE
    Done(r9.rest, Binds(binds.o, ret.o))

expr_fun(i) ==
    LET r1 == tag(i, <<"f", "n">>) IN IF r1.st # "Done" THEN Fail(r1) ELSE
    LET r2 == multispace(r1.rest) IN IF r2.st # "Done" THEN Fail(r2) ELSE
    LET param == symbol(r2.rest) IN IF param.st # "Done" THEN Fail(param) ELSE
    LET r4 == opt(multispace(param.rest), param.rest) IN IF r4.st # "Done" THEN Fail(r4) ELSE
    LET r5 == tag(r4.rest, <<"=", ">">>) IN IF r5.st # "Done" THEN Fail(r5) ELSE
    LET r6 == opt(multispace(r5.rest), r5.rest) IN IF r6.st # "Done" THEN Fail(r6) ELSE
    LET body == Rule("expr", r6.rest) IN IF body.st # "Done" THEN Fail(body) ELSE
    Done(body.rest, HFun(param.o, body.o))

expr_if(i) ==
    LET r1 == tag(i, <<"i", "f">>) IN IF r1.st # "Done" THEN Fail(r1) ELSE
    LET r2 == multispace(r1.rest) IN IF r2.st # "Done" THEN Fail(r2) ELSE
    LET cond == Rule("expr", r2.rest) IN IF cond.st # "Done" THEN Fail(cond) ELSE
    LET r4 == multispace(cond.rest) IN IF r4.st # "Done" THEN Fail(r4) ELSE
    LET r5 == tag(r4.rest, <<"t", "h", "e", "n">>) IN IF r5.st # "Done" THEN Fail(r5) ELSE
    LET r6 == multispace(r5.rest) IN IF r6.st # "Done" THEN Fail(r6) ELSE
    LET then == Rule("expr", r6.rest) IN IF then.st # "Done" THEN Fail(then) ELSE
    LET r8 == multispace(then.rest) IN IF r8.st # "Done" THEN Fail(r8) ELSE
    LET r9 == tag(r8.rest, <<"e", "l", "s", "e">>) IN IF r9.st # "Done" THEN Fail(r9) ELSE
    LET r10 == multispace(r9.rest) IN IF r10.st # "Done" THEN Fail(r10) ELSE
    LET else_ == Rule("expr", r10.rest) IN IF else_.st # "Done" THEN Fail(else_) ELSE
    Done(else_.rest, If(cond.o, then.o, else_.o))

\* rest.into_iter().flat_map(|v| v.into_iter()).fold(init, |acc, elm| App{acc, elm})
RECURSIVE FoldApp(_, _)
FoldApp(acc, elms) ==
    IF elms = <<>> THEN acc
    ELSE FoldApp(App(acc, Head(elms)), Tail(elms))

\* the optional tail of expr1_app: multispace >> separated_list!(multispace, expr0)
app_rest(i) ==
    LET r1 == multispace(i) IN IF r1.st # "Done" THEN Fail(r1) ELSE
    separated_list("expr0", r1.rest)

expr1_app(i) ==
    LET fun == Rule("expr0", i) IN IF fun.st # "Done" THEN Fail(fun) ELSE
    LET r2 == multispace(fun.rest) IN IF r2.st # "Done" THEN Fail(r2) ELSE
    LET arg == Rule("expr0", r2.rest) IN IF arg.st # "Done" THEN Fail(arg) ELSE
    LET rest == opt(app_rest(arg.rest), arg.rest) IN IF rest.st # "Done" THEN Fail(rest) ELSE
    Done(rest.rest,
         FoldApp(App(fun.o, arg.o), IF rest.o = "None" THEN <<>> ELSE rest.o))

expr_add(i) ==
    LET e1 == Rule("expr1", i) IN IF e1.st # "Done" THEN Fail(e1) ELSE
    LET r2 == opt(multispace(e1.rest), e1.rest) IN IF r2.st # "Done" THEN Fail(r2) ELSE
    LET r3 == tag(r2.rest, <<"+">>) IN IF r3.st # "Done" THEN Fail(r3) ELSE
    LET r4 == opt(multispace(r3.rest), r3.rest) IN IF r4.st # "Done" THEN Fail(r4) ELSE
    LET e2 == Rule("expr", r4.rest) IN IF e2.st # "Done" THEN Fail(e2) ELSE
    Done(e2.rest, Add(e1.o, e2.o))

expr1_mul(i) ==
    LET e1 == Rule("expr0", i) IN IF e1.st # "Done" THEN Fail(e1) ELSE
    LET r2 == opt(multispace(e1.rest), e1.rest) IN IF r2.st # "Done" THEN Fail(r2) ELSE
    LET r3 == tag(r2.rest, <<"*">>) IN IF r3.st # "Done" THEN Fail(r3) ELSE
    LET r4 == opt(multispace(r3.rest), r3.rest) IN IF r4.st # "Done" THEN Fail(r4) ELSE
    LET e2 == Rule("expr1", r4.rest) IN IF e2.st # "Done" THEN Fail(e2) ELSE
    Done(e2.rest, Mul(e1.o, e2.o))

expr0_sym(i) ==
    LET s == symbol(i)
    IN  IF s.st # "Done" THEN Fail(s) ELSE Done(s.rest, HSym(s.o))

expr0_int(i) ==
    LET s == digit(i)
    IN  IF s.st # "Done" THEN Fail(s) ELSE Done(s.rest, LitInt(DecValue(s.o)))

\* recognize!(delimited!(digit, complete!(tag!(".")), opt!(complete!(digit))))
unsigned_float(i) ==
    LET r1 == digit(i) IN IF r1.st # "Done" THEN Fail(r1) ELSE
    LET r2 == complete(tag(r1.rest, <<".">>)) IN IF r2.st # "Done" THEN Fail(r2) ELSE
    LET r3 == opt(complete(digit(r2.rest)), r2.rest) IN IF r3.st # "Done" THEN Fail(r3) ELSE
    Done(r3.rest, SubSeq(i, 1, Len(i) - Len(r3.rest)))

expr0_float(i) ==
    LET s == unsigned_float(i)
    IN  IF s.st # "Done" THEN Fail(s) ELSE Done(s.rest, LitFloat(s.o))

expr0_bool(i) ==
    LET a == tag(i, <<"t", "r", "u", "e">>)
    IN  IF a.st = "Done" THEN Done(a.rest, LitBool(TRUE))
        ELSE IF a.st # "Error" THEN a
        ELSE LET b == tag(i, <<"f", "a", "l", "s", "e">>)
             IN  IF b.st = "Done" THEN Done(b.rest, LitBool(FALSE)) ELSE b

expr0_paren(i) ==
    LET r1 == tag(i, <<"(">>) IN IF r1.st # "Done" THEN Fail(r1) ELSE
    LET r2 == opt(multispace(r1.rest), r1.rest) IN IF r2.st # "Done" THEN Fail(r2) ELSE
    LET e == Rule("expr", r2.rest) IN IF e.st # "Done" THEN Fail(e) ELSE
    LET r4 == opt(multispace(e.rest), e.rest) IN IF r4.st # "Done" THEN Fail(r4) ELSE
    LET r5 == tag(r4.rest, <<")">>) IN IF r5.st # "Done" THEN Fail(r5) ELSE
    Done(r5.rest, e.o)

expr0(i) ==
    LET a == Rule("expr0_paren", i) IN IF a.st # "Error" THEN a ELSE
    LET b == expr0_float(i) IN IF b.st # "Error" THEN b ELSE
    LET c == expr0_int(i) IN IF c.st # "Error" THEN c ELSE
    LET d == expr0_bool(i) IN IF d.st # "Error" THEN d ELSE
    expr0_sym(i)

top(i) ==
    LET r1 == opt(multispace(i), i) IN IF r1.st # "Done" THEN Fail(r1) ELSE
    LET tops == separated_list("bind", r1.rest) IN IF tops.st # "Done" THEN Fail(tops) ELSE
    LET r3 == opt(multispace(tops.rest), tops.rest) IN IF r3.st # "Done" THEN Fail(r3) ELSE
    LET r4 == eof(r3.rest) IN IF r4.st # "Done" THEN Fail(r4) ELSE
    Done(r4.rest, tops.o)

\* a call of the named parser what on i
Rule(what, i) ==
    CASE what = "symbol"      -> symbol(i)
      [] what = "bind"        -> bind(i)
      [] what = "bind_val"    -> bind_val(i)
      [] what = "bind_fun"    -> bind_fun(i)
      [] what = "expr"        -> expr(i)
      [] what = "expr1"       -> expr1(i)
      [] what = "expr0"       -> expr0(i)
      [] what = "expr_bind"   -> expr_bind(i)
      [] what = "expr_fun"    -> expr_fun(i)
      [] what = "expr_if"     -> expr_if(i)
      [] what = "expr1_app"   -> expr1_app(i)
      [] what = "expr_add"    -> expr_add(i)
      [] what = "expr1_mul"   -> expr1_mul(i)
      [] what = "expr0_paren" -> expr0_paren(i)
      [] what = "top"         -> top(i)

\* parse: top(input).to_result()
parse(i) ==
    LET iresult == Rule("top", i)
    IN  IF iresult.st = "Done" THEN [ok |-> TRUE, ast |-> iresult.o]
        ELSE [ok |-> FALSE, ast |-> <<>>]

(***************************************************************************)
(* The input texts: a let-bound program with a word in each place where    *)
(* the grammar wants a sym, and free-form texts of up to MaxLex lexemes.   *)
(***************************************************************************)
Words == ReservedWords \cup {<<"x">>, <<"v", "a", "l", "x">>, <<"f", "1">>, <<"t", "r", "u", "e">>}

Lexemes == {<<"v", "a", "l">>, <<"f", "u", "n">>, <<"x">>, <<"i", "n">>, <<" ">>, <<"=">>, <<"1">>, <<"(">>}

LetPrograms ==
    {<<"v", "a", "l", " ">> \o w \o <<"=", "l", "e", "t", " ", "v", "a", "l", " ">> \o v \o <<"=", "1", " ", "i", "n", " ">> \o b \o <<" ", "e", "n", "d">> :
        w \in Words, v \in Words, b \in Words}
    \cup {<<"f", "u", "n", " ">> \o w \o <<" ">> \o v \o <<"=", "l", "e", "t", " ", "v", "a", "l", " ", "y", "=", "1", " ", "i", "n", " ", "y", " ", "e", "n", "d">> : w \in Words, v \in Words}
    \cup {<<"v", "a", "l", " ", "x", "=", "l", "e", "t", " ", "v", "a", "l", " ", "y", "=", "f", "n", " ">> \o w \o <<"=", ">">> \o b \o <<" ", "i", "n", " ", "y", " ", "e", "n", "d">> : w \in Words, b \in Words}
    \cup {<<"v", "a", "l", " ">> \o w \o <<" ", "=", " ", "1">> : w \in Words}

(***************************************************************************)
(* Programs with the application f a ... a (n arguments; n = 0 is the bare *)
(* symbol f) followed by whitespace and then a reserved word or a further  *)
(* binding, each with the AST the grammar prescribes for it.               *)
(***************************************************************************)
AppText(n) == <<"f">> \o Flatten([j \in 1..n |-> <<" ", "a">>])

RECURSIVE AppTree(_)
AppTree(n) ==
    IF n = 0 THEN HSym(<<"f">>) ELSE App(AppTree(n - 1), HSym(<<"a">>))

UnitLet == <<"l", "e", "t", " ", "v", "a", "l", " ", "z", "=", "1", " ", "i", "n", " ", "z", " ", "e", "n", "d">>

UnitLetTree == Binds(<<PVal(FALSE, <<"z">>, LitInt(1))>>, HSym(<<"z">>))

AppBeforeIn(n) ==
    [ctx  |-> "in", n |-> n,
     text |-> <<"v", "a", "l", " ", "v", "=", "l", "e", "t", " ", "v", "a", "l", " ", "x", "=">>
              \o AppText(n) \o <<" ", "i", "n", " ", "x", " ", "e", "n", "d">>,
     ast  |-> <<PVal(FALSE, <<"v">>,
                     Binds(<<PVal(FALSE, <<"x">>, AppTree(n))>>, HSym(<<"x">>)))>>]

AppBeforeThen(n) ==
    [ctx  |-> "then", n |-> n,
     text |-> <<"v", "a", "l", " ", "v", "=", "i", "f", " ">> \o AppText(n)
              \o <<" ", "t", "h", "e", "n", " ", "1", " ", "e", "l", "s", "e", " ">> \o UnitLet,
     ast  |-> <<PVal(FALSE, <<"v">>, If(AppTree(n), LitInt(1), UnitLetTree))>>]

AppBeforeVal(n) ==
    [ctx  |-> "val", n |-> n,
     text |-> <<"v", "a", "l", " ", "x", "=">> \o AppText(n)
              \o <<" ", "v", "a", "l", " ", "y", "=">> \o UnitLet,
     ast  |-> <<PVal(FALSE, <<"x">>, AppTree(n)), PVal(FALSE, <<"y">>, UnitLetTree)>>]

AppCases ==
    UNION {{AppBeforeIn(n), AppBeforeThen(n), AppBeforeVal(n)} : n \in 0..MaxArgs}

InputTexts ==
    LetPrograms \cup {Flatten(ls) : ls \in SeqsUpTo(Lexemes, MaxLex)}
    \cup {c.text : c \in AppCases}

ParserNew ==
    /\ input \in InputTexts
    /\ parsed = [ok |-> FALSE, ast |-> <<>>]
    /\ ppc = "new"

Parse ==
    /\ ppc = "new"
    /\ parsed' = parse(input)
    /\ ppc' = "done"
    /\ UNCHANGED input

NextParse == Parse /\ UNCHANGED <<renameVars, flatVars>>

InitParse == RenameNew /\ FlatIdle /\ ParserNew

SpecParse == InitParse /\ [][NextParse]_vars

ParseDone == ppc = "done"

(***************************************************************************)
(* Reading a parsed AST and an input text.                                 *)
(***************************************************************************)
\* the names of all Symbols of a parsed tree: binder names, parameters, Syms
RECURSIVE SymbolsOfExpr(_)
SymbolsOfVals(vals) ==
    UNION {{vals[n].name} \cup SymbolsOfExpr(vals[n].expr) : n \in DOMAIN vals}

SymbolsOfExpr(e) ==
    CASE e.k = "Binds" -> SymbolsOfVals(e.binds) \cup SymbolsOfExpr(e.ret)
      [] e.k = "Fun"   -> {e.param} \cup SymbolsOfExpr(e.body)
      [] e.k = "App"   -> SymbolsOfExpr(e.fun) \cup SymbolsOfExpr(e.arg)
      [] e.k = "If"    -> SymbolsOfExpr(e.cond) \cup SymbolsOfExpr(e.then)
                          \cup SymbolsOfExpr(e.else_)
      [] e.k \in {"Add", "Mul"} -> SymbolsOfExpr(e.l) \cup SymbolsOfExpr(e.r)
      [] e.k = "Sym"   -> {e.name}
      [] OTHER         -> {}

\* the word (maximal alphanumeric run) that starts at position p of text i
IsWordStart(i, p) ==
    /\ i[p] \in Alphanumerics
    /\ p = 1 \/ i[p - 1] \notin Alphanumerics

WordAt(i, p) == SubSeq(i, p, p + Span(Drop(i, p - 1), Alphanumerics) - 1)

\* the text has the word val, fun or fn, then whitespace, then a reserved
\* word: a reserved word where the grammar requires a sym
ReservedWhereSymRequired(i) ==
    \E p \in DOMAIN i :
        /\ IsWordStart(i, p)
        /\ WordAt(i, p) \in {<<"v", "a", "l">>, <<"f", "u", "n">>, <<"f", "n">>}
        /\ LET q == p + Len(WordAt(i, p))
               s == q + Span(Drop(i, q - 1), Spaces)
           IN  /\ s > q
               /\ s <= Len(i)
               /\ i[s] \in Alphanumerics
               /\ WordAt(i, s) \in ReservedWords

(***************************************************************************)
(* C9.  Reserved words are never symbols: an AST that parse returns holds  *)
(* no Symbol (binder name, fn/fun parameter, Sym) named val, fun, fn, let, *)
(* in, end, if, then or else, and a text with a reserved word where the    *)
(* grammar requires a sym makes parse return an error.                     *)
(***************************************************************************)
ReservedWordsNeverSymbols ==
    ParseDone =>
        /\ parsed.ok => SymbolsOfVals(parsed.ast) \cap ReservedWords = {}
        /\ ReservedWhereSymRequired(input) => ~parsed.ok

\* parse has rejected a text that is a well-formed program but for the
\* reserved word that stands as a binder name
ReservedWordsNeverSymbolsWitness ==
    /\ ParseDone
    /\ ~parsed.ok
    /\ \E w \in ReservedWords :
           input = <<"v", "a", "l", " ", "x", "=", "l", "e", "t", " ", "v", "a", "l", " ">> \o w \o <<"=", "1", " ", "i", "n", " ", "x", " ", "e", "n", "d">>

\* parse has accepted a program, and its AST holds symbols
ParseAcceptsWitness ==
    /\ ParseDone
    /\ parsed.ok
    /\ <<"v", "a", "l", "x">> \in SymbolsOfVals(parsed.ast)

(***************************************************************************)
(* C11.  An application does not consume the whitespace that follows its   *)
(* last argument: a program whose application e0 e1 ... en (n >= 1) is     *)
(* followed by whitespace and then in, then or a further val binding is    *)
(* accepted by parse, with the AST the grammar prescribes.                 *)
(***************************************************************************)
ApplicationLeavesTrailingWhitespace ==
    \A c \in AppCases :
        (ParseDone /\ input = c.text /\ c.n >= 1) =>
            parsed = [ok |-> TRUE, ast |-> c.ast]

\* the same programs with the bare symbol f in place of the application
\* are accepted, with the AST the grammar prescribes
BareSymbolBeforeWordParses ==
    \A c \in AppCases :
        (ParseDone /\ input = c.text /\ c.n = 0) =>
            parsed = [ok |-> TRUE, ast |-> c.ast]

\* parse has accepted each kind of program with the bare symbol f
BareSymbolBeforeWordWitness ==
    /\ ParseDone
    /\ parsed.ok
    /\ input = AppBeforeVal(0).text

\* expr1_app, applied where a one-argument application starts, takes the
\* whitespace after the argument: what it leaves begins with the word in
Expr1AppTakesTrailingWhitespace ==
    \A c \in AppCases :
        (ParseDone /\ input = c.text /\ c.n = 1 /\ c.ctx = "in") =>
            LET r == Rule("expr1_app", Drop(input, 16))
            IN  /\ r.st = "Done"
                /\ r.o = AppTree(1)
                /\ r.rest = <<"i", "n", " ", "x", " ", "e", "n", "d">>

\* parse rejects every one of the programs whose application has one argument
OneArgumentApplicationRejected ==
    \A c \in AppCases :
        (ParseDone /\ input = c.text /\ c.n = 1) => ~parsed.ok

\* with two or more arguments the list of further arguments ends before its
\* separator, and the programs are accepted as the grammar prescribes
LongerApplicationParses ==
    \A c \in AppCases :
        (ParseDone /\ input = c.text /\ c.n >= 2) =>
            parsed = [ok |-> TRUE, ast |-> c.ast]

====
